---------------------------- MODULE Spec2Model ----------------------------
(***************************************************************************)
(* A model of backup.js (ddebarros/do-db-backup): one invocation of the    *)
(* command-line tool, the pg_dump child process it spawns, the local       *)
(* artifact file, the probe connection and the upload to the object store. *)
(*                                                                         *)
(* The Node process is modelled at the grain of its scheduler: the main    *)
(* script, a process.nextTick callback, the continuation of an await, and  *)
(* an I/O completion each run to completion as one action.  The pg_dump    *)
(* child is a separate operating-system process and takes its own steps    *)
(* (write the artifact, write to stderr, exit) between those actions, also *)
(* after the Node process has ended.                                       *)
(***************************************************************************)
EXTENDS Integers, Sequences, FiniteSets, TLC

(***************************************************************************)
(* Bounds and inputs                                                       *)
(***************************************************************************)
\* the number of chunks a pg_dump process writes to its stderr
MaxStderr == 2

\* the chunks of text a pg_dump process may write to its stderr
StderrChunks == {"pg_dump: error;", "pg_dump: detail;"}

\* exit statuses of a pg_dump process (137: killed)
ExitCodes == {0, 1, 137}

\* the [minutes] argument of the wait command, as typed
WaitArgs == {"1", "2", "0", "-1", "1.5", "abc", "2abc", "35792"}

\* how late, in milliseconds, the event loop may run a timer that is due
Lateness == {0, 7}

\* process.argv.slice(2)
Commands ==
    {<<>>, <<"backup">>, <<"test">>, <<"backup-with-test">>, <<"list">>, <<"wait">>}
        \cup {<<"wait", minutes>> : minutes \in WaitArgs}

\* the number of objects in a store that fits one answer of the object store
MaxObjects == 3

Passwords == {"s3cret", "hunter2"}
Unset == "<unset>"

VARIABLES
    argv,        \* process.argv.slice(2)
    processEnv,  \* process.env of the Node process: DB_PASSWORD, PGPASSWORD
    store,       \* the objects under the prefix in the bucket, in key order
    pc,          \* where the command's async flow is suspended
    ctx,         \* "main" / "micro": what queued the pending continuation
    client,      \* the pg Client of testConnection
    probes,      \* the values testConnection has returned, in order
    pgOutcomes,  \* what the database answered to the client, in order
    alive,       \* the Node process has not ended
    exitCode,    \* its exit code, -1 while it runs
    log,         \* console output, in order
    children,    \* the processes spawned, in order
    ticks,       \* the process.nextTick queue
    dumpPromise, \* the promise runPgDump returns
    stderr,      \* the stderr text runPgDump has captured (line 92)
    file,        \* a file exists at this.backupPath
    uploads,     \* the s3.upload calls made, in order
    cleanupCalls, \* the number of calls of cleanup()
    listing,     \* the entries listBackups has printed, in order
    now,         \* Date.now(), in milliseconds since the process started
    timers,      \* the active timers, in the order they were started
    timersStarted \* the number of setInterval and setTimeout calls made

\* what the invocation is given: no step changes it
inputs == <<argv, processEnv, store>>

vars == <<argv, processEnv, store, pc, ctx, client, probes, pgOutcomes, alive, exitCode, log, children,
          ticks, dumpPromise, stderr, file, uploads, cleanupCalls, listing, now, timers,
          timersStarted>>

(***************************************************************************)
(* The part of the state that synchronous code reads and writes, as one    *)
(* record, so that the statements of a function compose in source order.   *)
(***************************************************************************)
State ==
    [pc |-> pc, ctx |-> ctx, client |-> client, probes |-> probes,
     pgOutcomes |-> pgOutcomes,
     alive |-> alive, exitCode |-> exitCode, log |-> log, children |-> children,
     ticks |-> ticks, dumpPromise |-> dumpPromise, stderr |-> stderr,
     file |-> file, uploads |-> uploads, cleanupCalls |-> cleanupCalls,
     listing |-> listing, now |-> now, timers |-> timers,
     timersStarted |-> timersStarted]

SetState(s) ==
    /\ pc' = s.pc
    /\ ctx' = s.ctx
    /\ client' = s.client
    /\ probes' = s.probes
    /\ pgOutcomes' = s.pgOutcomes
    /\ alive' = s.alive
    /\ exitCode' = s.exitCode
    /\ log' = s.log
    /\ children' = s.children
    /\ ticks' = s.ticks
    /\ dumpPromise' = s.dumpPromise
    /\ stderr' = s.stderr
    /\ file' = s.file
    /\ uploads' = s.uploads
    /\ cleanupCalls' = s.cleanupCalls
    /\ listing' = s.listing
    /\ now' = s.now
    /\ timers' = s.timers
    /\ timersStarted' = s.timersStarted

(***************************************************************************)
(* Errors and console output                                               *)
(***************************************************************************)
\* an Error: its message, and apart the values interpolated into the message
\* (code -1: no exit status in the message)
Error(message, code, captured) ==
    [message |-> message, code |-> code, stderr |-> captured]
NoError == Error("", -1, "")

\* console.log / console.error; a statement after process.exit does not run
Log(s, msg, err) ==
    IF s.alive THEN [s EXCEPT !.log = Append(@, [msg |-> msg, err |-> err])] ELSE s

\* process.exit(code)
processExit(s, code) ==
    IF s.alive THEN [s EXCEPT !.alive = FALSE, !.exitCode = code] ELSE s

(***************************************************************************)
(* Configuration (lines 22-34)                                             *)
(***************************************************************************)
DefaultPort == 5432

Digit(d) == CASE d = 0 -> "0" [] d = 1 -> "1" [] d = 2 -> "2" [] d = 3 -> "3"
              [] d = 4 -> "4" [] d = 5 -> "5" [] d = 6 -> "6" [] d = 7 -> "7"
              [] d = 8 -> "8" [] d = 9 -> "9"

\* Number.prototype.toString: the decimal digits, most significant first
RECURSIVE toString(_)
toString(n) ==
    IF n < 0 THEN "-" \o toString(-n)
    ELSE IF n < 10 THEN Digit(n)
    ELSE toString(n \div 10) \o Digit(n % 10)

dbConfig ==
    [host |-> "db-host", port |-> DefaultPort, database |-> "defaultdb",
     user |-> "doadmin", password |-> processEnv.DB_PASSWORD]

backupPath == "backup_<timestamp>.sql"

(***************************************************************************)
(* child_process.spawn and the ChildProcess object (lines 71-86)           *)
(***************************************************************************)
\* the properties of the object spawn returns
ChildProcessProps ==
    {"pid", "stdin", "stdout", "stderr", "stdio", "spawnfile", "spawnargs",
     "killed", "connected", "exitCode", "signalCode"}

\* the argument list of lines 73-86
PgDumpArgs ==
    <<"-h", dbConfig.host, "-p", toString(dbConfig.port), "-U", dbConfig.user,
      "-d", dbConfig.database, "-f", backupPath, "--verbose", "--no-password">>

\* spawn(command, args): no options, so the child runs with process.env.  A
\* process that cannot be started (ENOENT, EACCES) is reported by an 'error'
\* event that spawn queues with process.nextTick.
spawn(s, command, args, started) ==
    LET child == [spawnfile |-> command, spawnargs |-> args,
                  PGPASSWORD |-> processEnv.PGPASSWORD,
                  status |-> IF started THEN "running" ELSE "failed",
                  exitCode |-> -1, wrote |-> "", chunks |-> 0, listeners |-> {}]
        i == Len(s.children) + 1
    IN  [s EXCEPT !.children = Append(@, child),
                  !.ticks = IF started THEN @ ELSE Append(@, i)]

(***************************************************************************)
(* DatabaseBackup.runPgDump (lines 67-115)                                 *)
(***************************************************************************)
resolve(s) ==
    IF s.dumpPromise.state = "pending"
    THEN [s EXCEPT !.dumpPromise = [state |-> "resolved", error |-> NoError]]
    ELSE s

reject(s, error) ==
    IF s.dumpPromise.state = "pending"
    THEN [s EXCEPT !.dumpPromise = [state |-> "rejected", error |-> error]]
    ELSE s

\* lines 98-100
onStderrData(s, data) == [s EXCEPT !.stderr = @ \o data]

\* lines 102-109
onClose(s, code) ==
    IF code = 0
    THEN resolve(Log(s, "Database dump created successfully", NoError))
    ELSE reject(s, Error("pg_dump failed with code " \o toString(code) \o ": "
                           \o s.stderr, code, s.stderr))

\* lines 111-113
onError(s, error) ==
    reject(s, Error("Failed to start pg_dump: " \o error.message, -1, ""))

\* an exception no handler catches: Node prints it and ends with exit code 1
uncaughtException(s, error) == processExit(Log(s, "Uncaught", error), 1)

\* lines 67-114, up to the return of the promise.  The assignment of line 89
\* reads the property env of the ChildProcess object: where the object has no
\* such property the assignment throws a TypeError inside the promise's
\* executor, which rejects the promise and skips lines 91-113.
runPgDump(s, started) ==
    LET s1 == Log(s, "Creating database dump...", NoError)
        s2 == [spawn(s1, "pg_dump", PgDumpArgs, started)
                 EXCEPT !.dumpPromise = [state |-> "pending", error |-> NoError]]
        i  == Len(s2.children)
    IN  IF "env" \in ChildProcessProps
        THEN [s2 EXCEPT !.stderr = "",
                        !.children[i].listeners =
                            {"stdout.data", "stderr.data", "close", "error"}]
        ELSE reject(s2, Error(
                 "Cannot set properties of undefined (setting 'PGPASSWORD')", -1, ""))

(***************************************************************************)
(* DatabaseBackup.cleanup (lines 147-152)                                  *)
(***************************************************************************)
cleanup(s) ==
    IF ~s.alive THEN s
    ELSE LET s1 == [s EXCEPT !.cleanupCalls = @ + 1]
         IN  IF s1.file
             THEN Log([s1 EXCEPT !.file = FALSE], "Local backup file cleaned up", NoError)
             ELSE s1

(***************************************************************************)
(* DatabaseBackup.uploadToSpaces (lines 117-145), its await included: ok   *)
(* is the outcome of s3.upload(...).promise().  An upload of a file that   *)
(* does not exist fails (the read stream of line 120 cannot open it).      *)
(***************************************************************************)
uploadToSpaces(s, ok) ==
    LET s1 == Log(s, "Uploading backup to DigitalOcean Spaces...", NoError)
        done == ok /\ s1.file
        s2 == [s1 EXCEPT !.uploads = Append(@,
                  [key |-> "postgres-backups/" \o backupPath, ok |-> done])]
    IN  IF done
        THEN [s |-> Log(Log(s2, "Backup uploaded successfully to:", NoError),
                        "Spaces URL:", NoError),
              error |-> NoError]
        ELSE [s |-> s2,
              error |-> Error("Failed to upload to Spaces: upload error", -1, "")]

(***************************************************************************)
(* DatabaseBackup.createBackup (lines 43-65)                               *)
(***************************************************************************)
\* catchBlock without the process.exit(1) of line 63
catchBlock_NoExit(s, error) ==
    cleanup(Log(s, "Backup failed:", error))

\* the catch block, lines 60-64
catchBlock(s, error) ==
    processExit(cleanup(Log(s, "Backup failed:", error)), 1)

\* an async function that has run to its end
finished(s) == IF s.alive THEN [s EXCEPT !.pc = "done"] ELSE s

\* lines 43-51, up to the await of runPgDump
createBackup(s, started) ==
    LET s1 == Log(s, "Starting PostgreSQL database backup...", NoError)
        s2 == Log(s1, "Timestamp:", NoError)
        s3 == Log(s2, "Database:", NoError)
        s4 == Log(s3, "Host:", NoError)
    IN  [runPgDump(s4, started) EXCEPT !.pc = "await_dump"]

\* createBackupAfterDump where a rejection of runPgDump does not leave the try
\* block: the upload of line 54 runs whatever the dump did
createBackupAfterDump_IgnoreFailure(s, uploadOk) ==
    LET u == uploadToSpaces(s, uploadOk)
    IN  IF u.error # NoError
        THEN finished(catchBlock(u.s, u.error))
        ELSE finished(Log(cleanup(u.s), "Backup completed successfully!", NoError))

\* lines 51-64, from the settling of the promise of runPgDump on
createBackupAfterDump(s, uploadOk) ==
    IF s.dumpPromise.state = "rejected"
    THEN finished(catchBlock(s, s.dumpPromise.error))
    ELSE LET u == uploadToSpaces(s, uploadOk)
         IN  IF u.error # NoError
             THEN finished(catchBlock(u.s, u.error))
             ELSE finished(Log(cleanup(u.s), "Backup completed successfully!", NoError))

(***************************************************************************)
(* DatabaseBackup.testConnection (lines 154-173)                           *)
(***************************************************************************)
\* lines 154-160, up to the await of client.connect()
testConnection(s) ==
    [Log(s, "Testing database connection...", NoError)
       EXCEPT !.client = "connecting", !.pc = "probe_connect"]

\* client.end() without its effect: the connection is not asked to close
clientEnd_NotCalled(s, where) == [s EXCEPT !.pc = where]

\* client.end() of lines 166 and 170, up to its await: the client closes its
\* connection.  The promise of Client.end has no rejecting path: it resolves
\* when the connection has ended, at once for a client that never connected.
clientEnd(s, where) == [s EXCEPT !.client = "ending", !.pc = where]

\* the catch block, lines 168-170, up to the await of client.end()
testConnectionCatch(s) ==
    clientEnd(Log(s, "Database connection failed:", Error("connection error", -1, "")),
              "end_catch")

\* line 160 settles: the query of line 161 is sent, or the catch block runs
testConnectionAfterConnect(s, ok) ==
    LET s1 == [s EXCEPT !.pgOutcomes = Append(@, [op |-> "connect", ok |-> ok])]
    IN  IF ok THEN [s1 EXCEPT !.client = "connected", !.pc = "probe_query"]
        ELSE testConnectionCatch(s1)

\* testConnectionAfterQuery where the catch block ends like the try block
testConnectionAfterQuery_CatchReturnsTrue(s, ok) ==
    LET s1 == [s EXCEPT !.pgOutcomes = Append(@, [op |-> "query", ok |-> ok])]
    IN  IF ok
        THEN clientEnd(Log(Log(s1, "Database connection successful", NoError),
                           "PostgreSQL version:", NoError), "end_try")
        ELSE clientEnd(Log(s1, "Database connection failed:",
                           Error("connection error", -1, "")), "end_try")

\* line 161 settles: lines 162-166, or the catch block
testConnectionAfterQuery(s, ok) ==
    LET s1 == [s EXCEPT !.pgOutcomes = Append(@, [op |-> "query", ok |-> ok])]
    IN  IF ok
        THEN clientEnd(Log(Log(s1, "Database connection successful", NoError),
                           "PostgreSQL version:", NoError), "end_try")
        ELSE testConnectionCatch(s1)

\* client.end() settles: line 167 returns true, line 171 returns false
testConnectionAfterEnd(s) ==
    [s EXCEPT !.client = IF @ = "ending" THEN "ended" ELSE @,
              !.probes = Append(@, s.pc = "end_try")]

(***************************************************************************)
(* DatabaseBackup.listBackups (lines 175-202)                              *)
(***************************************************************************)
\* the most keys one answer of listObjectsV2 holds (no MaxKeys is passed)
MaxKeys == 1000

\* four decimal digits: object keys in key order are in order of their number
Pad4(n) ==
    Digit(n \div 1000) \o Digit((n \div 100) % 10) \o Digit((n \div 10) % 10)
        \o Digit(n % 10)

\* the object a backup leaves in the bucket
Object(i, lastModified) ==
    [Key |-> "postgres-backups/backup_" \o Pad4(i) \o ".sql",
     LastModified |-> lastModified, Size |-> i * 786432]

\* the stores listed: every store of at most MaxObjects objects with
\* timestamps in 1..MaxObjects, and one store of MaxKeys + 1 daily backups
Stores ==
    UNION {{[i \in 1..n |-> Object(i, f[i])] : f \in [1..n -> 1..MaxObjects]}
              : n \in 0..MaxObjects}
        \cup {[i \in 1..(MaxKeys + 1) |-> Object(i, i)]}

\* s3.listObjectsV2({Bucket, Prefix}): one answer, the first MaxKeys objects
\* in key order; the code asks for no further answer
listObjectsV2(objects) ==
    SubSeq(objects, 1, IF Len(objects) < MaxKeys THEN Len(objects) ELSE MaxKeys)

\* the comparator of line 193
byLastModifiedDesc(a, b) == b.LastModified - a.LastModified

\* Array.prototype.sort with the comparator of line 193 (a stable sort): the
\* element at i goes behind those that compare smaller and those that compare
\* equal and stand before it
sort(seq) ==
    LET n == Len(seq)
        rank == SubSeq([i \in 1..n |->
                   Cardinality({j \in 1..n :
                       \/ byLastModifiedDesc(seq[j], seq[i]) < 0
                       \/ byLastModifiedDesc(seq[j], seq[i]) = 0 /\ j < i}) + 1], 1, n)
        at == SubSeq([k \in 1..n |-> CHOOSE i \in 1..n : rank[i] = k], 1, n)
    IN  SubSeq([k \in 1..n |-> seq[at[k]]], 1, n)

\* (obj.Size / 1024 / 1024).toFixed(2), in hundredths of a mebibyte
toFixed2(size) ==
    (size \div 1048576) * 100 + ((size % 1048576) * 100 + 524288) \div 1048576

\* lines 194-198: one printed entry
entry(obj, index) ==
    [index |-> index + 1, Key |-> obj.Key, size |-> toFixed2(obj.Size),
     date |-> obj.LastModified]

\* lines 175-184, up to the await of listObjectsV2
listBackups(s) ==
    [Log(s, "Listing existing backups...", NoError) EXCEPT !.pc = "await_list"]

\* lines 186-201, from the settling of listObjectsV2 on
listBackupsAfterList(s, ok) ==
    IF ~ok
    THEN finished(Log(s, "Failed to list backups:", Error("list error", -1, "")))
    ELSE LET Contents == listObjectsV2(store)
         IN  IF Len(Contents) = 0
             THEN finished(Log(s, "No backups found", NoError))
             ELSE LET sorted == sort(Contents)
                  IN  finished([Log(s, "Found backup(s):", Error("", Len(Contents), ""))
                                  EXCEPT !.listing =
                                      [k \in 1..Len(sorted) |-> entry(sorted[k], k - 1)]])

(***************************************************************************)
(* The commands (lines 210-247) and the main script (lines 311-318)        *)
(***************************************************************************)
\* backupWithTest without the test of line 241
backupWithTest_NoCheck(s, isConnected, started) ==
    createBackup(s, started)

\* lines 240-246 of backup-with-test, from the return of testConnection on
backupWithTest(s, isConnected, started) ==
    IF isConnected
    THEN createBackup(s, started)
    ELSE processExit(
             Log(s, "Cannot proceed with backup due to connection failure", NoError), 1)

\* the command that awaited testConnection resumes with its result
afterTestConnection(s, started) ==
    LET s1 == testConnectionAfterEnd(s)
        isConnected == s1.probes[Len(s1.probes)]
    IN  IF argv = <<"backup-with-test">>
        THEN backupWithTest(s1, isConnected, started)
        ELSE finished(s1)

(***************************************************************************)
(* The wait command (lines 249-309)                                        *)
(***************************************************************************)
\* the characters of a [minutes] argument
Chars(str) ==
    CASE str = "1" -> <<"1">>
      [] str = "2" -> <<"2">>
      [] str = "5" -> <<"5">>
      [] str = "0" -> <<"0">>
      [] str = "-1" -> <<"-", "1">>
      [] str = "1.5" -> <<"1", ".", "5">>
      [] str = "abc" -> <<"a", "b", "c">>
      [] str = "2abc" -> <<"2", "a", "b", "c">>
      [] str = "35792" -> <<"3", "5", "7", "9", "2">>

DigitChars == {Digit(d) : d \in 0..9}
DigitValue(c) == CHOOSE d \in 0..9 : Digit(d) = c

\* the number of digits a sequence of characters starts with
RECURSIVE LeadingDigits(_)
LeadingDigits(seq) ==
    IF seq = <<>> \/ seq[1] \notin DigitChars THEN 0 ELSE 1 + LeadingDigits(Tail(seq))

\* the value of a sequence of digits, base 10
RECURSIVE ValueOf(_)
ValueOf(digits) ==
    IF digits = <<>> THEN 0
    ELSE ValueOf(SubSeq(digits, 1, Len(digits) - 1)) * 10 + DigitValue(digits[Len(digits)])

Unsigned(chars) == IF chars # <<>> /\ chars[1] \in {"-", "+"} THEN Tail(chars) ELSE chars
Sign(chars) == IF chars # <<>> /\ chars[1] = "-" THEN -1 ELSE 1

\* parseInt(string): an optional sign and the longest run of digits after it,
\* whatever follows them; NaN when there is no digit there
parseInt(str) ==
    LET chars == Chars(str)
        n == LeadingDigits(Unsigned(chars))
    IN  IF n = 0 THEN [nan |-> TRUE, value |-> 0]
        ELSE [nan |-> FALSE, value |-> Sign(chars) * ValueOf(SubSeq(Unsigned(chars), 1, n))]
isNaN(number) == number.nan

\* line 255: the default of the parameter
DefaultMinutes == 5

\* the argument the action of wait is called with; parseInt reads its argument
\* as a string
minutes == IF Len(argv) >= 2 THEN argv[2] ELSE toString(DefaultMinutes)
waitMinutes == parseInt(minutes).value

\* line 274
progressInterval == 15000

\* the longest delay of a timer of Node, in milliseconds (2^31 - 1)
TIMEOUT_MAX == 2147483647

\* the delay, in milliseconds, of a timer asked for with seconds * 1000: Node
\* sets a delay that is not in 1..TIMEOUT_MAX to 1. (seconds * 1000 is above
\* TIMEOUT_MAX exactly when seconds is above TIMEOUT_MAX \div 1000.)
timeoutDelay(seconds) ==
    IF seconds < 1 \/ seconds > TIMEOUT_MAX \div 1000 THEN 1 ELSE seconds * 1000

setInterval(s, callback, delay) ==
    [s EXCEPT !.timers = Append(@, [callback |-> callback, due |-> s.now + delay]),
              !.timersStarted = @ + 1]

setTimeout(s, callback, seconds) ==
    [s EXCEPT !.timers = Append(@, [callback |-> callback,
                                    due |-> s.now + timeoutDelay(seconds)]),
              !.timersStarted = @ + 1]

clearInterval(s) ==
    [s EXCEPT !.timers = SelectSeq(@, LAMBDA t : t.callback # "progress")]

\* lines 276-291: the callback of the interval, timer i; startTime is 0
progress(s, i) ==
    LET elapsed == s.now \div 1000
        remaining == waitMinutes * 60 - elapsed
        s1 == IF waitMinutes >= 2
              THEN Log(s, "Time elapsed (m s), Remaining:", Error("", elapsed, ""))
              ELSE Log(s, "Time elapsed (s), Remaining:", Error("", elapsed, ""))
    IN  [s1 EXCEPT !.timers[i].due = s.now + progressInterval]

\* lines 255-299: the action of wait, up to its await
wait(s, arg) ==
    IF isNaN(parseInt(arg)) \/ parseInt(arg).value <= 0
    THEN processExit(
             Log(s, "Invalid time specified. Please provide a positive number of minutes.",
                 NoError), 1)
    ELSE LET s1 == Log(Log(s, "Starting wait timer...",
                           Error("", parseInt(arg).value, "")),
                       "This command will wait before completing", NoError)
             s2 == setInterval(s1, "progress", progressInterval)
         IN  [setTimeout(s2, "timeout", parseInt(arg).value * 60)
                 EXCEPT !.pc = "await_wait"]

\* lines 295-305: the callback of the timeout, and the action of wait after
\* its await
waitAfterTimeout(s) ==
    LET s1 == [clearInterval(s) EXCEPT
                   !.timers = SelectSeq(@, LAMBDA t : t.callback # "timeout")]
    IN  finished(Log(Log(s1, "Wait command completed successfully",
                         Error("", waitMinutes, "")),
                     "Task finished with success status", NoError))

\* program.parse(process.argv): the action of the command named, up to its
\* first await
parse(s, started) ==
    CASE argv = <<"backup">> -> createBackup(s, started)
      [] argv = <<"test">> -> testConnection(s)
      [] argv = <<"backup-with-test">> -> testConnection(s)
      [] argv = <<"list">> -> listBackups(s)
      [] Len(argv) > 0 /\ argv[1] = "wait" -> wait(s, minutes)
      [] OTHER -> s

\* main without the test of line 315: the default backup runs after any command
main_AlwaysDefault(s, started) ==
    createBackup(parse(s, started), started)

\* lines 312-318
main(s, started) ==
    LET s1 == parse(s, started)
    IN  IF Len(argv) = 0 THEN createBackup(s1, started) ELSE s1

(***************************************************************************)
(* Events of the ChildProcess object                                       *)
(***************************************************************************)
\* emit(event, arg) on child i: the listener attached in lines 94-113 runs; an
\* 'error' event with no listener is thrown
emit(s, i, event, arg) ==
    IF ~s.alive THEN s
    ELSE IF event \in s.children[i].listeners
    THEN CASE event = "stderr.data" -> onStderrData(s, arg)
           [] event = "close" -> onClose(s, arg)
           [] event = "error" -> onError(s, arg)
           [] OTHER -> s
    ELSE IF event = "error" THEN uncaughtException(s, arg)
    ELSE s

DumpRunning == \E i \in DOMAIN children : children[i].status = "running"

\* the continuation of createBackup is ready to run
DumpSettled == pc = "await_dump" /\ dumpPromise.state \in {"resolved", "rejected"}

(***************************************************************************)
(* Initial state                                                           *)
(***************************************************************************)
Init ==
    /\ argv \in Commands
    /\ processEnv \in [DB_PASSWORD : Passwords, PGPASSWORD : Passwords \cup {Unset}]
    /\ store \in IF argv = <<"list">> THEN Stores ELSE {<<>>}
    /\ pc = "start"
    /\ ctx = "macrotask"
    /\ client = "none"
    /\ probes = <<>>
    /\ pgOutcomes = <<>>
    /\ alive = TRUE
    /\ exitCode = -1
    /\ log = <<>>
    /\ children = <<>>
    /\ ticks = <<>>
    /\ dumpPromise = [state |-> "none", error |-> NoError]
    /\ stderr = ""
    /\ file = FALSE
    /\ uploads = <<>>
    /\ cleanupCalls = 0
    /\ listing = <<>>
    /\ now = 0
    /\ timers = <<>>
    /\ timersStarted = 0

(***************************************************************************)
(* Steps of the Node process                                               *)
(***************************************************************************)
\* the main script runs to its end
RunMain ==
    /\ alive /\ pc = "start"
    /\ \E started \in BOOLEAN :
         SetState([main(State, started) EXCEPT !.ctx = "macrotask"])
    /\ UNCHANGED inputs

\* a process.nextTick callback: the 'error' event of a child that could not be
\* started, then its 'close' event.  Callbacks queued by the main script or by
\* an I/O callback run before the continuations of promises; those queued
\* inside a continuation run after the continuations that are ready.
RunNextTick ==
    /\ alive /\ ticks # <<>>
    /\ ~(ctx = "microtask" /\ DumpSettled)
    /\ LET i  == Head(ticks)
           s1 == [State EXCEPT !.ticks = Tail(@)]
           s2 == emit(s1, i, "error", Error("spawn pg_dump ENOENT", -2, ""))
       IN  SetState(emit(s2, i, "close", -2))
    /\ UNCHANGED inputs

\* createBackup resumes from the await of line 51
ResumeCreateBackup ==
    /\ alive /\ DumpSettled
    /\ ticks = <<>> \/ ctx = "microtask"
    /\ \E uploadOk \in BOOLEAN :
         SetState([createBackupAfterDump(State, uploadOk) EXCEPT !.ctx = "microtask"])
    /\ UNCHANGED inputs

\* client.connect() settles
PgConnectDone ==
    /\ alive /\ pc = "probe_connect"
    /\ \E ok \in BOOLEAN : SetState(testConnectionAfterConnect(State, ok))
    /\ UNCHANGED inputs

\* client.query() settles
PgQueryDone ==
    /\ alive /\ pc = "probe_query"
    /\ \E ok \in BOOLEAN : SetState(testConnectionAfterQuery(State, ok))
    /\ UNCHANGED inputs

\* client.end() settles; testConnection returns and the command resumes
PgEndDone ==
    /\ alive /\ pc \in {"end_try", "end_catch"}
    /\ \E started \in BOOLEAN :
         SetState([afterTestConnection(State, started) EXCEPT !.ctx = "microtask"])
    /\ UNCHANGED inputs

\* listObjectsV2 settles
S3ListDone ==
    /\ alive /\ pc = "await_list"
    /\ \E ok \in BOOLEAN : SetState(listBackupsAfterList(State, ok))
    /\ UNCHANGED inputs

\* the event loop runs the timer that is due first, at its time or later
TimerFire ==
    /\ alive /\ ticks = <<>> /\ timers # <<>>
    /\ \E i \in DOMAIN timers, late \in Lateness :
         /\ \A j \in DOMAIN timers : timers[i].due <= timers[j].due
         /\ LET due == timers[i].due
                s1 == [State EXCEPT !.now = (IF @ < due THEN due ELSE @) + late,
                                    !.ctx = "macrotask"]
            IN  SetState(IF timers[i].callback = "progress"
                         THEN progress(s1, i)
                         ELSE waitAfterTimeout(s1))
    /\ UNCHANGED inputs

\* nothing is left to run or to wait for: the process ends with exit code 0
NaturalExit ==
    /\ alive /\ pc = "done" /\ ticks = <<>> /\ timers = <<>> /\ ~DumpRunning
    /\ SetState([State EXCEPT !.alive = FALSE, !.exitCode = 0])
    /\ UNCHANGED inputs

(***************************************************************************)
(* Steps of a pg_dump process                                              *)
(***************************************************************************)
\* pg_dump creates or extends the file named by -f
ChildWrite ==
    /\ \E i \in DOMAIN children :
         /\ children[i].status = "running"
         /\ children[i].spawnargs[10] = backupPath
         /\ ~file
         /\ SetState([State EXCEPT !.file = TRUE])
    /\ UNCHANGED inputs

\* pg_dump writes to its stderr; a listening Node process gets a 'data' event
ChildStderr ==
    /\ \E i \in DOMAIN children, data \in StderrChunks :
         /\ children[i].status = "running"
         /\ children[i].chunks < MaxStderr
         /\ LET s1 == [State EXCEPT !.children[i].wrote = @ \o data,
                                    !.children[i].chunks = @ + 1]
            IN  SetState(emit(s1, i, "stderr.data", data))
    /\ UNCHANGED inputs

\* pg_dump exits; a listening Node process gets a 'close' event
ChildExit ==
    /\ \E i \in DOMAIN children, code \in ExitCodes :
         /\ children[i].status = "running"
         /\ LET s1 == [State EXCEPT !.children[i].status = "exited",
                                    !.children[i].exitCode = code,
                                    !.ctx = IF alive THEN "macrotask" ELSE @]
            IN  SetState(emit(s1, i, "close", code))
    /\ UNCHANGED inputs

Next ==
    \/ RunMain
    \/ RunNextTick
    \/ ResumeCreateBackup
    \/ PgConnectDone
    \/ PgQueryDone
    \/ PgEndDone
    \/ S3ListDone
    \/ TimerFire
    \/ NaturalExit
    \/ ChildWrite
    \/ ChildStderr
    \/ ChildExit

Spec == Init /\ [][Next]_vars


\* what the scheduler of Node guarantees: code that is ready to run is run
FairSpec ==
    /\ Spec
    /\ WF_vars(RunMain)
    /\ WF_vars(RunNextTick)
    /\ WF_vars(ResumeCreateBackup)

(***************************************************************************)
(* Vocabulary of the properties                                            *)
(***************************************************************************)
Logged(msg) == \E k \in DOMAIN log : log[k].msg = msg

\* createBackup has been called
BackupRun == Logged("Starting PostgreSQL database backup...")

\* the run has terminated
Terminated == ~alive

ExitedWith(i, code) ==
    children[i].status = "exited" /\ children[i].exitCode = code

\* a dump process ended with a non-zero status or could not be started
DumpFailed ==
    \E i \in DOMAIN children :
        \/ children[i].status = "failed"
        \/ children[i].status = "exited" /\ children[i].exitCode # 0

DumpRejected == dumpPromise.state = "rejected"

UploadFailed == \E j \in DOMAIN uploads : ~uploads[j].ok

SuccessReported == Logged("Backup completed successfully!")

Range(f) == {f[x] : x \in DOMAIN f}

(***************************************************************************)
(* C1: once a run of createBackup has terminated, whatever the outcome of  *)
(* the dump and of the upload, no file exists at the local artifact path.  *)
(***************************************************************************)
C1_NoArtifactAfterRun == (BackupRun /\ Terminated) => ~file

(***************************************************************************)
(* C2: if the dump step fails (the dump process exits with a non-zero      *)
(* status or cannot be started, so that runPgDump rejects), uploadToSpaces *)
(* is never invoked in that run.                                           *)
(***************************************************************************)
C2_NoUploadAfterFailedDump == (DumpFailed \/ DumpRejected) => uploads = <<>>

C2_Witness ==
    /\ \E i \in DOMAIN children : ExitedWith(i, 137)
    /\ DumpRejected /\ Logged("Backup failed:") /\ Terminated
    /\ uploads = <<>>

(***************************************************************************)
(* C3: whenever the dump process exits with status 0 the dump step         *)
(* succeeds and the upload is invoked with the produced file; if the       *)
(* upload succeeds too, the run reports success and ends with exit code 0. *)
(***************************************************************************)
C3_ExitZeroUploads ==
    (Terminated /\ \E i \in DOMAIN children : ExitedWith(i, 0))
        => /\ dumpPromise.state = "resolved"
           /\ Len(uploads) = 1
           /\ uploads[1].ok => (SuccessReported /\ exitCode = 0)

(***************************************************************************)
(* C4: a failure of the dump step or of the upload step ends the run with  *)
(* exit code 1: the run never reports "Backup completed successfully", it  *)
(* never ends with exit code 0, and it does end.                           *)
(***************************************************************************)
C4_Safety ==
    (DumpFailed \/ DumpRejected \/ UploadFailed)
        => /\ ~SuccessReported
           /\ Terminated => exitCode = 1

C4_FailureExitsOne ==
    /\ []C4_Safety
    /\ ((alive /\ (DumpRejected \/ UploadFailed)) ~> (Terminated /\ exitCode = 1))

C4_Witness ==
    /\ \E i \in DOMAIN children : ExitedWith(i, 1)
    /\ Logged("Backup failed:") /\ Terminated /\ exitCode = 1

(***************************************************************************)
(* C5: for every non-zero exit status c of the dump process, the run       *)
(* reports a dump failure whose message carries c and the full stderr text *)
(* of that process, and exits non-zero.                                    *)
(***************************************************************************)
C5_DumpFailureCarriesCodeAndStderr ==
    \A i \in DOMAIN children :
        (Terminated /\ children[i].status = "exited" /\ children[i].exitCode # 0)
            => /\ \E k \in DOMAIN log :
                    /\ log[k].msg = "Backup failed:"
                    /\ log[k].err.code = children[i].exitCode
                    /\ log[k].err.stderr = children[i].wrote
               /\ exitCode # 0

(***************************************************************************)
(* C6: in one invocation of the tool at most one dump process is spawned   *)
(* and at most one upload is started; nothing is retried.                  *)
(***************************************************************************)
C6_AtMostOneDumpAndUpload == Len(children) <= 1 /\ Len(uploads) <= 1

C6_Witness ==
    /\ argv = <<"backup">> /\ Terminated
    /\ Len(children) = 1 /\ children[1].status = "exited" /\ DumpRejected

(***************************************************************************)
(* C7: the dump process is spawned with host, port, user, database and     *)
(* output path as arguments, never with the password among them, and with  *)
(* the configured password in its PGPASSWORD environment variable.         *)
(***************************************************************************)
C7_PasswordOutOfBand ==
    \A i \in DOMAIN children :
        /\ {dbConfig.host, toString(dbConfig.port), dbConfig.user,
            dbConfig.database, backupPath} \subseteq Range(children[i].spawnargs)
        /\ dbConfig.password \notin Range(children[i].spawnargs)
        /\ children[i].PGPASSWORD = dbConfig.password

(***************************************************************************)
(* C8: the dump step blocks the orchestrator: no upload, no cleanup and no *)
(* end of the process happens while a spawned dump process is running, and *)
(* so no dump process creates the artifact after cleanup has run.          *)
(***************************************************************************)
C8_DumpBlocksOrchestrator ==
    [][ /\ (uploads' # uploads \/ cleanupCalls' # cleanupCalls \/ (alive /\ ~alive'))
            => ~DumpRunning
        /\ (~file /\ file') => cleanupCalls = 0 ]_vars

(***************************************************************************)
(* C9: in every backup run cleanup is performed exactly once, in the       *)
(* failure case before the process ends, and never twice.                  *)
(***************************************************************************)
C9_CleanupExactlyOnce ==
    /\ cleanupCalls <= 1
    /\ (BackupRun /\ Terminated) => cleanupCalls = 1

(***************************************************************************)
(* C10: in backup-with-test, when the probe reports failure no dump        *)
(* process is spawned, nothing is uploaded and the process ends with exit  *)
(* code 1; a dump process is spawned only after the probe returned true.   *)
(***************************************************************************)
C10_NoBackupAfterFailedProbe ==
    argv = <<"backup-with-test">>
        => /\ (probes # <<>> /\ ~probes[1])
                => /\ children = <<>> /\ uploads = <<>> /\ ~BackupRun
                   /\ Terminated /\ exitCode = 1
           /\ children # <<>> => probes = <<TRUE>>

C10_Witness ==
    /\ argv = <<"backup-with-test">> /\ probes = <<FALSE>>
    /\ Logged("Cannot proceed with backup due to connection failure")
    /\ Terminated /\ exitCode = 1 /\ children = <<>>


(***************************************************************************)
(* C11: testConnection never throws past its boundary: whatever connect,   *)
(* query and close answer, it returns a boolean, true only if the connect  *)
(* and the query both succeeded and false whenever one of them failed.     *)
(***************************************************************************)
ProbeSuspended == pc \in {"probe_connect", "probe_query", "end_try", "end_catch"}

PgOk(op) == \E k \in DOMAIN pgOutcomes : pgOutcomes[k].op = op /\ pgOutcomes[k].ok

PgFailed == \E k \in DOMAIN pgOutcomes : ~pgOutcomes[k].ok

C11_ProbeReturnsBoolean ==
    /\ (pgOutcomes # <<>> /\ ~ProbeSuspended) => Len(probes) = 1
    /\ \A k \in DOMAIN probes :
          /\ probes[k] \in BOOLEAN
          /\ probes[k] => (PgOk("connect") /\ PgOk("query"))
          /\ PgFailed => ~probes[k]

C11_Witness ==
    /\ argv = <<"test">> /\ Terminated /\ exitCode = 0
    /\ PgOk("connect") /\ PgFailed /\ probes = <<FALSE>>

(***************************************************************************)
(* C12: on every path through testConnection (connect fails, query fails,  *)
(* both succeed) the client's connection has been closed when              *)
(* testConnection returns.                                                 *)
(***************************************************************************)
C12_ClientClosedOnReturn == probes # <<>> => client = "ended"

C12_Witness ==
    /\ pgOutcomes = <<[op |-> "connect", ok |-> FALSE]>>
    /\ probes = <<FALSE>> /\ client = "ended"


(***************************************************************************)
(* C13: for every store of N >= 0 objects under the prefix, listBackups    *)
(* prints exactly N entries, numbered 1..N, newest first; for N = 0 it     *)
(* reports that no backups were found and does not raise.                  *)
(***************************************************************************)
Listed == argv = <<"list">> /\ pc = "done" /\ ~Logged("Failed to list backups:")

NewestFirst(entries) ==
    \A k \in 1..(Len(entries) - 1) : entries[k].date >= entries[k + 1].date

C13_ListsAllNewestFirst ==
    Listed =>
        /\ Len(listing) = Len(store)
        /\ \A k \in DOMAIN listing : listing[k].index = k
        /\ NewestFirst(listing)
        /\ {listing[k].Key : k \in DOMAIN listing} = {store[i].Key : i \in DOMAIN store}
        /\ store = <<>> => Logged("No backups found")


\* ---- C14 ----
\* a number as the claim reads it: an optional sign, digits, and at most one
\* decimal after a point, with nothing else around
IsNumber(chars) ==
    LET body == Unsigned(chars)
        n == LeadingDigits(body)
        rest == SubSeq(body, n + 1, Len(body))
    IN  /\ n > 0
        /\ \/ rest = <<>>
           \/ Len(rest) = 2 /\ rest[1] = "." /\ rest[2] \in DigitChars

\* ten times the number
Tenths(chars) ==
    LET body == Unsigned(chars)
        n == LeadingDigits(body)
    IN  Sign(chars) * (ValueOf(SubSeq(body, 1, n)) * 10
                         + IF Len(body) > n THEN DigitValue(body[n + 2]) ELSE 0)

IsPositiveNumber(chars) == IsNumber(chars) /\ Tenths(chars) > 0

WaitRun == Len(argv) > 0 /\ argv[1] = "wait" /\ (pc # "start" \/ ~alive)
WaitSucceeded == Logged("Wait command completed successfully")

\* C14: the wait command reports success only if its argument is a positive
\* number m and at least m * 60 seconds have passed since it started; given
\* an argument that is not a positive number it ends at once with exit
\* code 1, having started no timer and waited for nothing.
C14_WaitSucceedsOnlyAfterMinutes ==
    WaitRun =>
        /\ WaitSucceeded =>
              /\ IsPositiveNumber(Chars(minutes))
              /\ now \div 1000 >= Tenths(Chars(minutes)) * 6
        /\ ~IsPositiveNumber(Chars(minutes)) =>
              /\ ~alive /\ exitCode = 1
              /\ timersStarted = 0
              /\ now = 0

=============================================================================
